---------------------------- MODULE Spec2Model ----------------------------
(***************************************************************************)
(* Model of kafka-examples/consumer/SepsisDetectionConsumer.py.            *)
(*                                                                         *)
(* Each worker is one SepsisDetectionConsumer running process_messages on  *)
(* its own partition of the feed.  All workers share one Redis store: the  *)
(* per-patient criteria hash "sepsis:criteria:<id>" with its key TTL, and  *)
(* the per-patient cooldown key "sepsis:alert:<id>" with its TTL.  Every   *)
(* Redis call, the feed poll, the sink dispatch and the feed commit is one *)
(* step of the worker that makes it, so the calls of different workers     *)
(* interleave freely.  Time advances in ticks (TicksPerHour per hour).       *)
(***************************************************************************)
EXTENDS Integers, Sequences, FiniteSets, TLC

VARIABLES
    criteria,        \* Redis: patient -> hash field -> stored string ("" = no field)
    critTTL,         \* Redis: patient -> ticks left on the criteria key (NoExpiry = none set)
    cooldown,        \* Redis: patient -> ticks left on the alert key (0 = key absent)
    pc,              \* worker -> the statement it is about to execute
    msg,             \* worker -> the polled message being parsed
    patient_id,      \* worker -> local patient_id
    vital_sign,      \* worker -> local vital_sign
    value,           \* worker -> local value
    alert,           \* worker -> the alert dict built by _trigger_sepsis_alert
    position,        \* worker -> messages consumed from its partition
    committed,       \* worker -> committed position of its partition
    feedLen,         \* worker -> messages its partition holds
    feed,            \* the messages the topics carry
    polled,          \* worker -> what its last poll returned ("": not polled yet)
    failures,        \* Redis calls that have raised so far
    err,             \* worker -> the exception caught at line 142 ("none" outside the handler)
    firstFailed,     \* worker -> offset of the first message whose processing raised (0: none)
    sinkFailed,      \* worker -> a sink call failed while dispatching the current alert
    dispatchers,     \* patient -> workers that dispatched since the last cooldown expiry
    nAlerts,         \* patient -> alerts dispatched so far
    recorded,        \* patient -> audited vital -> ticks since its last abnormal observation (-1: last was normal)
    trail            \* the messages polled and the ticks passed so far, in order (kept on the trace feed)

vars == <<criteria, critTTL, cooldown, pc, msg, patient_id, vital_sign, value, alert,
          position, committed, feedLen, feed, polled, failures, err, firstFailed,
          sinkFailed, dispatchers, nAlerts, recorded, trail>>

storeVars == <<criteria, critTTL, cooldown>>
feedVars  == <<position, committed, feedLen, feed, polled>>
ghostVars == <<dispatchers, nAlerts, recorded, trail>>

-----------------------------------------------------------------------------
(* Bounds of the model. *)

MaxEvents == 2          \* messages per partition when two workers run
MaxEventsSolo == 4      \* messages in the partition when one worker runs
MaxFailures == 1        \* Redis calls that may raise in one run
TicksPerHour == 1       \* resolution of the clock
MaxTicks == 2           \* ticks in a run whose history is kept
MaxValue == 110         \* largest observation value the threshold table is compared on

Workers == {"w1", "w2"}
Patients == {"p1"}

-----------------------------------------------------------------------------
(* Program constants. *)

CRITERIA_TTL_SECONDS == 21600
alert_cooldown_minutes == 60

CritTicks == (CRITERIA_TTL_SECONDS * TicksPerHour) \div (60 * 60)
CoolTicks == (alert_cooldown_minutes * 60 * TicksPerHour) \div (60 * 60)
NoExpiry == 0 - 1

LOINC_CODES ==
    [c \in {"9279-1", "85354-9", "9269-2", "8867-4", "8310-5"} |->
        CASE c = "9279-1"  -> "respiratory_rate"
          [] c = "85354-9" -> "systolic_bp"
          [] c = "9269-2"  -> "gcs"
          [] c = "8867-4"  -> "heart_rate"
          [] c = "8310-5"  -> "temperature"]

VitalSigns == {LOINC_CODES[c] : c \in DOMAIN LOINC_CODES}

THRESHOLDS ==
    [v \in {"respiratory_rate", "systolic_bp", "gcs"} |->
        CASE v = "respiratory_rate" -> 22
          [] v = "systolic_bp"      -> 100
          [] v = "gcs"              -> 15]

-----------------------------------------------------------------------------
(* JSON values and messages. *)

Num(n) == [type |-> "number", n |-> n]
Text   == [type |-> "string", n |-> 0]
None   == [type |-> "null",   n |-> 0]

NoMsg == [json |-> FALSE, PatientId |-> "", resourceType |-> "", code |-> "", value |-> None]
BadJson == [json |-> FALSE, PatientId |-> "p1", resourceType |-> "", code |-> "", value |-> None]

Obs(p, c, v) == [json |-> TRUE, PatientId |-> p, resourceType |-> "Observation", code |-> c, value |-> v]

Feed ==
    UNION {
        { Obs(p, "9279-1",  Num(21)), Obs(p, "9279-1",  Num(22)),
          Obs(p, "85354-9", Num(100)), Obs(p, "85354-9", Num(101)),
          Obs(p, "9269-2",  Num(14)), Obs(p, "9269-2",  Num(15)),
          Obs(p, "8867-4",  Num(120)), Obs(p, "8310-5",  Num(39)),
          Obs(p, "0000-0",  Num(30)),
          Obs(p, "9279-1",  None), Obs(p, "9279-1",  Text),
          [Obs(p, "9279-1", Num(30)) EXCEPT !.resourceType = "Patient"] }
        : p \in Patients } \cup {BadJson}

\* the messages that move the score: two kinds turning abnormal, one turning normal
ScoringFeed ==
    { Obs(p, "9279-1", Num(22)) : p \in Patients } \cup
    { Obs(p, "85354-9", Num(100)) : p \in Patients } \cup
    { Obs(p, "9279-1", Num(21)) : p \in Patients }

\* the observations of a patient who turns septic, and one that is normal again
TraceFeed ==
    UNION { { Obs(p, "9279-1", Num(24)), Obs(p, "85354-9", Num(90)),
              Obs(p, "9269-2", Num(10)), Obs(p, "9279-1", Num(21)) } : p \in Patients }

Digit(d) ==
    CASE d = 0 -> "0" [] d = 1 -> "1" [] d = 2 -> "2" [] d = 3 -> "3" [] d = 4 -> "4"
      [] d = 5 -> "5" [] d = 6 -> "6" [] d = 7 -> "7" [] d = 8 -> "8" [] d = 9 -> "9"

RECURSIVE Str(_)
Str(n) == IF n < 10 THEN Digit(n) ELSE Str(n \div 10) \o Digit(n % 10)

-----------------------------------------------------------------------------
(* The Redis store. *)

NoFields == [v \in VitalSigns |-> ""]

\* redis.hgetall(criteria_key): the fields present
Hgetall(p) == {v \in VitalSigns : criteria[p][v] # ""}

KeyExists(p) == Hgetall(p) # {}

\* mutant: the value is appended to what the field holds (a list push, not a field set)
HsetAppends(p, field, s) ==
    /\ criteria' = [criteria EXCEPT ![p][field] = @ \o s]
    /\ critTTL' = [critTTL EXCEPT ![p] = IF KeyExists(p) THEN @ ELSE NoExpiry]

\* redis.hset(criteria_key, field, s): a new key carries no expiry
Hset(p, field, s) ==
    /\ criteria' = [criteria EXCEPT ![p][field] = s]
    /\ critTTL' = [critTTL EXCEPT ![p] = IF KeyExists(p) THEN @ ELSE NoExpiry]

\* redis.hdel(criteria_key, field): removing the last field removes the key
Hdel(p, field) ==
    /\ criteria' = [criteria EXCEPT ![p][field] = ""]
    /\ critTTL' = [critTTL EXCEPT ![p] = IF Hgetall(p) \subseteq {field} THEN 0 ELSE @]

\* redis.expire(criteria_key, 21600): no effect on a missing key
RedisExpire(p) ==
    /\ critTTL' = [critTTL EXCEPT ![p] = IF KeyExists(p) THEN CritTicks ELSE @]
    /\ UNCHANGED criteria

\* mutant: the cooldown key is never seen
RedisExistsNever(p) == FALSE

\* redis.exists(alert_key)
RedisExists(p) == cooldown[p] > 0

\* redis.setex(alert_key, alert_cooldown_minutes * 60, '1')
RedisSetex(p) == cooldown' = [cooldown EXCEPT ![p] = CoolTicks]

-----------------------------------------------------------------------------
(* _check_qsofa_criteria, lines 200-210: the abnormality decision. *)

\* mutant: a heart rate above 100 counts as a criterion
IsAbnormalWithHeartRate(vital, val) ==
    IF vital = "heart_rate"
    THEN val.n > 100
    ELSE IF vital \in DOMAIN THRESHOLDS /\ THRESHOLDS[vital] # 0
    THEN CASE vital = "respiratory_rate" -> val.n >= THRESHOLDS[vital]
           [] vital = "systolic_bp"      -> val.n <= THRESHOLDS[vital]
           [] vital = "gcs"              -> val.n < THRESHOLDS[vital]
    ELSE FALSE

\* mutant: every comparison of lines 206-210 loses or gains its equality
IsAbnormalOffByOne(vital, val) ==
    IF vital \in DOMAIN THRESHOLDS /\ THRESHOLDS[vital] # 0
    THEN CASE vital = "respiratory_rate" -> val.n > THRESHOLDS[vital]
           [] vital = "systolic_bp"      -> val.n < THRESHOLDS[vital]
           [] vital = "gcs"              -> val.n <= THRESHOLDS[vital]
    ELSE FALSE

IsAbnormal(vital, val) ==
    IF vital \in DOMAIN THRESHOLDS /\ THRESHOLDS[vital] # 0
    THEN CASE vital = "respiratory_rate" -> val.n >= THRESHOLDS[vital]
           [] vital = "systolic_bp"      -> val.n <= THRESHOLDS[vital]
           [] vital = "gcs"              -> val.n < THRESHOLDS[vital]
    ELSE FALSE

\* comparing a str with an int raises TypeError
ComparisonRaises(vital, val) ==
    vital \in DOMAIN THRESHOLDS /\ THRESHOLDS[vital] # 0 /\ val.type # "number"

NoAlert == [patient_id |-> "", qsofa_score |-> 0 - 1, criteria_met |-> NoFields]

-----------------------------------------------------------------------------
(* Initial states. *)

InitStore ==
    /\ criteria = [p \in Patients |-> NoFields]
    /\ critTTL = [p \in Patients |-> 0]
    /\ cooldown = [p \in Patients |-> 0]
    /\ failures = 0

InitWorkers ==
    /\ msg = [w \in Workers |-> NoMsg]
    /\ patient_id = [w \in Workers |-> ""]
    /\ vital_sign = [w \in Workers |-> ""]
    /\ value = [w \in Workers |-> None]
    /\ alert = [w \in Workers |-> NoAlert]
    /\ position = [w \in Workers |-> 0]
    /\ committed = [w \in Workers |-> 0]
    /\ polled = [w \in Workers |-> ""]
    /\ err = [w \in Workers |-> "none"]
    /\ firstFailed = [w \in Workers |-> 0]
    /\ sinkFailed = [w \in Workers |-> FALSE]

InitGhost ==
    /\ dispatchers = [p \in Patients |-> {}]
    /\ nAlerts = [p \in Patients |-> 0]
    /\ trail = << >>

\* two workers of the consumer group, one partition each
Init ==
    /\ InitStore /\ InitWorkers /\ InitGhost
    /\ recorded = [p \in Patients |-> [v \in {} |-> 0]]
    /\ pc = [w \in Workers |-> "poll"]
    /\ feedLen = [w \in Workers |-> MaxEvents]
    /\ feed = ScoringFeed

\* one worker
InitSolo ==
    /\ InitStore /\ InitWorkers /\ InitGhost
    /\ recorded = [p \in Patients |-> [v \in {} |-> 0]]
    /\ pc = [w \in Workers |-> IF w = "w1" THEN "poll" ELSE "closed"]
    /\ feedLen = [w \in Workers |-> IF w = "w1" THEN MaxEventsSolo ELSE 0]
    /\ feed = Feed

\* one worker, with the age of every vital's last abnormal observation audited
InitSeq ==
    /\ InitStore /\ InitWorkers /\ InitGhost
    /\ recorded = [p \in Patients |-> [v \in VitalSigns |-> 0 - 1]]
    /\ pc = [w \in Workers |-> IF w = "w1" THEN "poll" ELSE "closed"]
    /\ feedLen = [w \in Workers |-> IF w = "w1" THEN MaxEventsSolo ELSE 0]
    /\ feed = Feed

\* the audit notes that the latest observation of vital v is a ticks old (-1: it was normal)
Audit(p, v, a) ==
    recorded' = [recorded EXCEPT ![p] = [x \in DOMAIN @ |-> IF x = v THEN a ELSE @[x]]]

\* one worker on the trace feed, with the history of the run kept in trail
InitTrace ==
    /\ InitStore /\ InitWorkers /\ InitGhost
    /\ recorded = [p \in Patients |-> [v \in {} |-> 0]]
    /\ pc = [w \in Workers |-> IF w = "w1" THEN "poll" ELSE "closed"]
    /\ feedLen = [w \in Workers |-> IF w = "w1" THEN MaxEventsSolo ELSE 0]
    /\ feed = TraceFeed

\* the history is kept for runs on the trace feed
Traced == feed = TraceFeed

\* history entries: a polled message (dispatched: an alert went to the sinks
\* while it was processed) and a tick of the clock
MsgEntry(m) == [kind |-> "msg", code |-> m.code, n |-> m.value.n, dispatched |-> FALSE]
TickEntry == [kind |-> "tick", code |-> "", n |-> 0, dispatched |-> FALSE]

-----------------------------------------------------------------------------
(* process_messages, lines 122-150. *)

workerLocals == <<msg, patient_id, vital_sign, value, alert>>

ClearLocals(w) ==
    /\ msg' = [msg EXCEPT ![w] = NoMsg]
    /\ patient_id' = [patient_id EXCEPT ![w] = ""]
    /\ vital_sign' = [vital_sign EXCEPT ![w] = ""]
    /\ value' = [value EXCEPT ![w] = None]
    /\ alert' = [alert EXCEPT ![w] = NoAlert]

\* mutant: the commit sits in a finally clause and runs after an exception too
RaiseThenCommit(w, e) ==
    /\ err' = [err EXCEPT ![w] = e]
    /\ firstFailed' = [firstFailed EXCEPT ![w] = IF @ = 0 THEN position[w] ELSE @]
    /\ pc' = [pc EXCEPT ![w] = "commit"]
    /\ ClearLocals(w)
    /\ sinkFailed' = [sinkFailed EXCEPT ![w] = FALSE]
    /\ UNCHANGED feedVars

\* line 142: the exception is caught; nothing is committed
Raise(w, e) ==
    /\ err' = [err EXCEPT ![w] = e]
    /\ firstFailed' = [firstFailed EXCEPT ![w] = IF @ = 0 THEN position[w] ELSE @]
    /\ pc' = [pc EXCEPT ![w] = "except"]
    /\ ClearLocals(w)
    /\ sinkFailed' = [sinkFailed EXCEPT ![w] = FALSE]
    /\ UNCHANGED feedVars

\* mutant: the handler re-raises after logging, which ends the loop
LogErrorAndReraise(w) ==
    /\ pc[w] = "except"
    /\ err' = [err EXCEPT ![w] = "none"]
    /\ pc' = [pc EXCEPT ![w] = "finally"]
    /\ UNCHANGED <<storeVars, workerLocals, feedVars, failures, firstFailed, sinkFailed, ghostVars>>

\* line 143: the handler logs the exception; the loop polls again
LogError(w) ==
    /\ pc[w] = "except"
    /\ err' = [err EXCEPT ![w] = "none"]
    /\ pc' = [pc EXCEPT ![w] = "poll"]
    /\ UNCHANGED <<storeVars, workerLocals, feedVars, failures, firstFailed, sinkFailed, ghostVars>>

\* _process_message returns normally: its locals go, line 141 is next
Return(w) ==
    /\ pc' = [pc EXCEPT ![w] = "commit"]
    /\ patient_id' = [patient_id EXCEPT ![w] = ""]
    /\ vital_sign' = [vital_sign EXCEPT ![w] = ""]
    /\ value' = [value EXCEPT ![w] = None]
    /\ alert' = [alert EXCEPT ![w] = NoAlert]
    /\ UNCHANGED <<msg, feedVars, err, firstFailed, sinkFailed>>

\* what a poll leaves alone when it hands no message to _process_message
pollLeaves == <<storeVars, workerLocals, position, committed, feedLen, feed, failures, err,
                firstFailed, sinkFailed, ghostVars>>

\* lines 124-127: poll times out; continue
PollNone(w) ==
    /\ pc[w] = "poll"
    /\ polled' = [polled EXCEPT ![w] = "none"]
    /\ UNCHANGED <<pc, pollLeaves>>

\* lines 129-132: end of partition; continue
PollEof(w) ==
    /\ pc[w] = "poll"
    /\ polled' = [polled EXCEPT ![w] = "eof"]
    /\ UNCHANGED <<pc, pollLeaves>>

\* mutant: the KafkaException is raised outside the try of line 122, past the finally
PollFatalSkipsFinally(w) ==
    /\ pc[w] = "poll"
    /\ polled' = [polled EXCEPT ![w] = "error"]
    /\ pc' = [pc EXCEPT ![w] = "exited"]
    /\ UNCHANGED pollLeaves

\* lines 133-135: any other feed error raises KafkaException out of the loop
PollFatal(w) ==
    /\ pc[w] = "poll"
    /\ polled' = [polled EXCEPT ![w] = "error"]
    /\ pc' = [pc EXCEPT ![w] = "finally"]
    /\ UNCHANGED pollLeaves

\* lines 148-150: the finally clause closes the consumer; process_messages ends
Close(w) ==
    /\ pc[w] = "finally"
    /\ pc' = [pc EXCEPT ![w] = "closed"]
    /\ UNCHANGED <<polled, pollLeaves>>

\* line 124: poll returns the next message of the partition
PollMsg(w) ==
    /\ pc[w] = "poll"
    /\ position[w] < feedLen[w]
    /\ \E m \in feed :
         /\ msg' = [msg EXCEPT ![w] = m]
         /\ trail' = IF Traced THEN Append(trail, MsgEntry(m)) ELSE trail
    /\ position' = [position EXCEPT ![w] = @ + 1]
    /\ polled' = [polled EXCEPT ![w] = "msg"]
    /\ pc' = [pc EXCEPT ![w] = "process"]
    /\ UNCHANGED <<storeVars, patient_id, vital_sign, value, alert, committed, feedLen, feed,
                   failures, err, firstFailed, sinkFailed, dispatchers, nAlerts, recorded>>

\* line 141: consumer.commit() commits the consumer's current position
Commit(w) ==
    /\ pc[w] = "commit"
    /\ committed' = [committed EXCEPT ![w] = position[w]]
    /\ pc' = [pc EXCEPT ![w] = "poll"]
    /\ msg' = [msg EXCEPT ![w] = NoMsg]
    /\ sinkFailed' = [sinkFailed EXCEPT ![w] = FALSE]
    /\ UNCHANGED <<storeVars, patient_id, vital_sign, value, alert, position, feedLen, feed,
                   polled, failures, err, firstFailed, ghostVars>>

-----------------------------------------------------------------------------
(* _process_message, lines 152-186. *)

\* mutant: the resourceType test of line 163 is missing
SkippedWithoutTypeTest(m) ==
    \/ m.code \notin DOMAIN LOINC_CODES
    \/ m.value = None

\* lines 163-164 and 177-178: the message is not a usable observation
Skipped(m) ==
    \/ m.resourceType # "Observation"
    \/ m.code \notin DOMAIN LOINC_CODES
    \/ m.value = None

ProcessMessage(w) ==
    /\ pc[w] = "process"
    /\ UNCHANGED <<storeVars, failures, ghostVars>>
    /\ IF ~msg[w].json
       THEN Raise(w, "JSONDecodeError")
       ELSE IF Skipped(msg[w])
       THEN Return(w)
       ELSE /\ patient_id' = [patient_id EXCEPT ![w] = msg[w].PatientId]
            /\ vital_sign' = [vital_sign EXCEPT ![w] = LOINC_CODES[msg[w].code]]
            /\ value' = [value EXCEPT ![w] = msg[w].value]
            /\ msg' = [msg EXCEPT ![w] = NoMsg]
            /\ pc' = [pc EXCEPT ![w] = "check"]
            /\ UNCHANGED <<alert, feedVars, err, firstFailed, sinkFailed>>

-----------------------------------------------------------------------------
(* _check_qsofa_criteria, lines 188-227. *)

\* lines 200-219 up to the first Redis call: hset when abnormal, hdel when not
CheckCriterion(w) ==
    /\ pc[w] = "check"
    /\ UNCHANGED <<cooldown, failures, dispatchers, nAlerts, trail>>
    /\ IF ComparisonRaises(vital_sign[w], value[w])
       THEN /\ Raise(w, "TypeError")
            /\ UNCHANGED <<criteria, critTTL, recorded>>
       ELSE IF IsAbnormal(vital_sign[w], value[w])
       THEN /\ Hset(patient_id[w], vital_sign[w], Str(value[w].n))
            /\ Audit(patient_id[w], vital_sign[w], 0)
            /\ pc' = [pc EXCEPT ![w] = "expire"]
            /\ UNCHANGED <<workerLocals, feedVars, err, firstFailed, sinkFailed>>
       ELSE /\ Hdel(patient_id[w], vital_sign[w])
            /\ Audit(patient_id[w], vital_sign[w], 0 - 1)
            /\ pc' = [pc EXCEPT ![w] = "count"]
            /\ UNCHANGED <<workerLocals, feedVars, err, firstFailed, sinkFailed>>

\* line 215
Expire(w) ==
    /\ pc[w] = "expire"
    /\ RedisExpire(patient_id[w])
    /\ IF criteria[patient_id[w]][vital_sign[w]] # ""
       THEN Audit(patient_id[w], vital_sign[w], 0)
       ELSE UNCHANGED recorded
    /\ pc' = [pc EXCEPT ![w] = "count"]
    /\ UNCHANGED <<cooldown, workerLocals, feedVars, failures, err, firstFailed, sinkFailed,
                   dispatchers, nAlerts, trail>>

\* lines 222-223
QsofaScore(p) == Cardinality(Hgetall(p))

\* mutant: the score is kept in the worker's memory, from its own observation only
CountInWorkerMemory(w) ==
    /\ pc[w] = "count"
    /\ UNCHANGED <<storeVars, failures, ghostVars>>
    /\ IF Cardinality(Hgetall(patient_id[w]) \cap {vital_sign[w]}) >= 2
       THEN /\ pc' = [pc EXCEPT ![w] = "cooldown"]
            /\ vital_sign' = [vital_sign EXCEPT ![w] = ""]
            /\ value' = [value EXCEPT ![w] = None]
            /\ UNCHANGED <<msg, patient_id, alert, feedVars, err, firstFailed, sinkFailed>>
       ELSE Return(w)

\* mutant: one criterion is enough to go on to the alert
CountAlertsAtOne(w) ==
    /\ pc[w] = "count"
    /\ UNCHANGED <<storeVars, failures, ghostVars>>
    /\ IF QsofaScore(patient_id[w]) >= 1
       THEN /\ pc' = [pc EXCEPT ![w] = "cooldown"]
            /\ vital_sign' = [vital_sign EXCEPT ![w] = ""]
            /\ value' = [value EXCEPT ![w] = None]
            /\ UNCHANGED <<msg, patient_id, alert, feedVars, err, firstFailed, sinkFailed>>
       ELSE Return(w)

\* lines 222-227 and 185-186: the score decides whether _trigger_sepsis_alert runs
Count(w) ==
    /\ pc[w] = "count"
    /\ UNCHANGED <<storeVars, failures, ghostVars>>
    /\ IF QsofaScore(patient_id[w]) >= 2
       THEN /\ pc' = [pc EXCEPT ![w] = "cooldown"]
            /\ vital_sign' = [vital_sign EXCEPT ![w] = ""]
            /\ value' = [value EXCEPT ![w] = None]
            /\ UNCHANGED <<msg, patient_id, alert, feedVars, err, firstFailed, sinkFailed>>
       ELSE Return(w)

-----------------------------------------------------------------------------
(* _trigger_sepsis_alert, lines 229-263. *)

\* mutant: the gate sets the cooldown itself (set-if-absent), before the alert is built
CheckCooldownSetIfAbsent(w) ==
    /\ pc[w] = "cooldown"
    /\ UNCHANGED <<criteria, critTTL, failures, ghostVars>>
    /\ IF RedisExists(patient_id[w])
       THEN Return(w) /\ UNCHANGED cooldown
       ELSE /\ RedisSetex(patient_id[w])
            /\ pc' = [pc EXCEPT ![w] = "compose"]
            /\ UNCHANGED <<workerLocals, feedVars, err, firstFailed, sinkFailed>>

\* lines 234-237: an existing cooldown key suppresses the alert
CheckCooldown(w) ==
    /\ pc[w] = "cooldown"
    /\ UNCHANGED <<storeVars, failures, ghostVars>>
    /\ IF RedisExists(patient_id[w])
       THEN Return(w)
       ELSE /\ pc' = [pc EXCEPT ![w] = "compose"]
            /\ UNCHANGED <<workerLocals, feedVars, err, firstFailed, sinkFailed>>

\* lines 240-253: the criteria are read again and the alert is built from them
Compose(w) ==
    /\ pc[w] = "compose"
    /\ alert' = [alert EXCEPT ![w] = [patient_id |-> patient_id[w],
                                      qsofa_score |-> QsofaScore(patient_id[w]),
                                      criteria_met |-> criteria[patient_id[w]]]]
    /\ pc' = [pc EXCEPT ![w] = "send"]
    /\ UNCHANGED <<storeVars, msg, patient_id, vital_sign, value, feedVars, failures,
                   err, firstFailed, sinkFailed, ghostVars>>

\* _send_to_pagerduty, lines 265-298: what happens to the page
PagerOutcomes == {"not_configured", "sent", "http_error", "exception"}

\* lines 293-298: a bad response and a raised exception are logged inside the sink
PagerFailed(outcome) == outcome \in {"http_error", "exception"}

\* mutant: requests.post is called outside the try of lines 287-298
PagerRaisesUncaught(outcome) == IF outcome = "exception" THEN "RequestException" ELSE "none"

\* the exception that leaves _send_to_pagerduty ("none": it returns normally)
PagerRaises(outcome) == "none"

\* lines 256-258: the three sinks, in sequence
SendAlerts(w) ==
    /\ pc[w] = "send"
    /\ \E outcome \in PagerOutcomes :
         IF PagerRaises(outcome) # "none"
         THEN /\ Raise(w, PagerRaises(outcome))
              /\ UNCHANGED ghostVars
         ELSE /\ sinkFailed' = [sinkFailed EXCEPT ![w] = PagerFailed(outcome)]
              /\ dispatchers' = [dispatchers EXCEPT ![alert[w].patient_id] = @ \cup {w}]
              /\ nAlerts' = [nAlerts EXCEPT ![alert[w].patient_id] = @ + 1]
              /\ trail' = IF Traced THEN [trail EXCEPT ![Len(trail)].dispatched = TRUE] ELSE trail
              /\ pc' = [pc EXCEPT ![w] = "setex"]
              /\ UNCHANGED <<workerLocals, feedVars, err, firstFailed, recorded>>
    /\ UNCHANGED <<storeVars, failures>>

\* line 261: the cooldown is set after the sinks
SetCooldown(w) ==
    /\ pc[w] = "setex"
    /\ RedisSetex(patient_id[w])
    /\ Return(w)
    /\ UNCHANGED <<criteria, critTTL, failures, ghostVars>>

-----------------------------------------------------------------------------
(* The environment. *)

RedisCallPcs == {"check", "expire", "count", "cooldown", "compose", "setex"}

\* a Redis call raises (connection lost, timeout): the call has no effect
RedisRaise(w) ==
    /\ pc[w] \in RedisCallPcs
    /\ pc[w] = "check" => ~ComparisonRaises(vital_sign[w], value[w])
    /\ failures < MaxFailures
    /\ failures' = failures + 1
    /\ Raise(w, "RedisError@" \o pc[w])
    /\ UNCHANGED <<storeVars, ghostVars>>

Dec(t) == IF t > 0 THEN t - 1 ELSE t

\* one tick passes: Redis ages both TTLs and drops what has expired
Tick ==
    /\ critTTL' = [p \in Patients |-> Dec(critTTL[p])]
    /\ criteria' = [p \in Patients |-> IF critTTL[p] = 1 THEN NoFields ELSE criteria[p]]
    /\ cooldown' = [p \in Patients |-> Dec(cooldown[p])]
    /\ dispatchers' = [p \in Patients |-> IF cooldown[p] = 1 THEN {} ELSE dispatchers[p]]
    /\ recorded' = [p \in Patients |-> [v \in DOMAIN recorded[p] |->
                       IF recorded[p][v] >= 0 /\ recorded[p][v] < CritTicks
                       THEN recorded[p][v] + 1 ELSE recorded[p][v]]]
    /\ trail' = IF Traced THEN Append(trail, TickEntry) ELSE trail
    /\ UNCHANGED <<pc, workerLocals, feedVars, failures, err, firstFailed, sinkFailed, nAlerts>>

\* a tick that passes while no message is being processed
TickIdle ==
    /\ \A w \in Workers : pc[w] \in {"poll", "closed"}
    /\ Tick

-----------------------------------------------------------------------------
(* Specifications. *)

\* the handling of one message that raises nothing, lines 137-141
HandleNormally(w) ==
    \/ PollMsg(w)
    \/ ProcessMessage(w)
    \/ CheckCriterion(w)
    \/ Expire(w)
    \/ Count(w)
    \/ CheckCooldown(w)
    \/ Compose(w)
    \/ SendAlerts(w)
    \/ SetCooldown(w)
    \/ Commit(w)

\* the handling of one message, the except branch included, lines 137-144
Handle(w) ==
    \/ HandleNormally(w)
    \/ LogError(w)

\* the feed conditions of lines 124-135 and the exit through the finally clause
FeedCondition(w) ==
    \/ PollNone(w)
    \/ PollEof(w)
    \/ PollFatal(w)
    \/ Close(w)

\* a tick between two messages of a run whose history is kept
TickTraced ==
    /\ Cardinality({i \in 1..Len(trail) : trail[i].kind = "tick"}) < MaxTicks
    /\ TickIdle

\* workers on a healthy store and a feed of numeric scoring observations, on
\* which no step raises; time passes at any point
NextRace ==
    \/ \E w \in Workers : HandleNormally(w)
    \/ Tick

\* feed errors and Redis failures included
Next ==
    \/ \E w \in Workers : Handle(w)
    \/ \E w \in Workers : FeedCondition(w)
    \/ \E w \in Workers : RedisRaise(w)
    \/ Tick

\* no Redis call fails and no time passes while a message is being processed
NextSeq ==
    \/ \E w \in Workers : Handle(w)
    \/ \E w \in Workers : FeedCondition(w)
    \/ TickIdle

\* one worker on a healthy feed and a healthy store, a bounded number of ticks
NextTrace ==
    \/ \E w \in Workers : HandleNormally(w)
    \/ TickTraced

\* the feed conditions that keep the loop going
FeedIdle(w) ==
    \/ PollNone(w)
    \/ PollEof(w)

\* one worker on a feed without fatal errors; messages may raise
NextLive ==
    \/ \E w \in Workers : Handle(w)
    \/ \E w \in Workers : FeedIdle(w)
    \/ TickIdle

\* two workers, concurrent
Spec == Init /\ [][NextRace]_vars

\* one worker
SpecSolo == InitSolo /\ [][Next]_vars

\* one worker, every message processed within one tick, Redis always up
SpecSeq == InitSeq /\ [][NextSeq]_vars

\* one worker that keeps running (the while True of line 123) on a feed that
\* keeps delivering what the partition holds
SpecLive ==
    /\ InitSolo /\ [][NextLive]_vars
    /\ \A w \in Workers : WF_vars(Handle(w))

\* one worker, the history of the run kept
SpecTrace == InitTrace /\ [][NextTrace]_vars

-----------------------------------------------------------------------------
(* Properties. *)

ScoringVitals == {"respiratory_rate", "systolic_bp", "gcs"}

\* the scoring vitals whose latest observation was abnormal and is younger than 6 hours
LiveAbnormal(p) ==
    {v \in ScoringVitals : recorded[p][v] >= 0 /\ recorded[p][v] < CritTicks}

\* C1: between two expiries of a patient's cooldown key at most one worker
\* dispatches an alert for that patient, whatever the interleaving.
C1_OneDispatcherPerCooldown ==
    \A p \in Patients : Cardinality(dispatchers[p]) <= 1

\* C2: the committed position of a partition never passes the offset of a
\* message whose processing raised.
C2_CommitNeverPassesFailure ==
    \A w \in Workers : firstFailed[w] # 0 => committed[w] < firstFailed[w]

\* C3: one worker: no alert is dispatched while the patient's cooldown key is
\* present, so score-crossing events inside the window (replays included) add
\* no dispatch to the one that opened it; and a score-crossing event is
\* suppressed only by a cooldown key that is present, so one that comes after
\* the expiry dispatches again.
C3_OneAlertPerWindow ==
    [][ /\ \A p \in Patients :
             nAlerts'[p] # nAlerts[p] => cooldown[p] = 0 /\ nAlerts'[p] = nAlerts[p] + 1
        /\ \A w \in Workers :
             pc[w] = "cooldown" /\ pc'[w] = "commit" => cooldown[patient_id[w]] > 0
      ]_vars

\* C3 witness: a second alert went out, with no Redis failure in the run, and
\* its cooldown entry is in place: the first window expired in between.
C3_SecondAlertAfterExpiry ==
    \E p \in Patients : nAlerts[p] = 2 /\ failures = 0 /\ cooldown[p] = CoolTicks

\* C4: a field of the criteria hash whose vital has had no abnormal
\* observation for 6 hours is no longer in the hash.
C4_StaleRecordNotCounted ==
    \A p \in Patients : \A v \in VitalSigns :
        recorded[p][v] >= CritTicks => criteria[p][v] = ""

\* C5: the count _check_qsofa_criteria is about to compute equals the number
\* of scoring vitals whose latest observation is abnormal and younger than 6 hours.
C5_CountIsLiveAbnormal ==
    \A w \in Workers :
        pc[w] = "count" =>
            QsofaScore(patient_id[w]) = Cardinality(LiveAbnormal(patient_id[w]))

C8_NoCooldownAfterFailedDispatch ==
    [][ \A w \in Workers :
          sinkFailed[w] /\ pc[w] = "setex" =>
              cooldown'[patient_id[w]] = cooldown[patient_id[w]]
      ]_vars

\* C8, amended: the cooldown key is written only by the setex of line 261, by
\* a worker that has built its alert and handed it to the sinks; a step that
\* raises (the composition's hgetall among them) writes no cooldown key.
C8_CooldownOnlyAfterDispatch ==
    [][ /\ \A p \in Patients :
             cooldown'[p] > cooldown[p] =>
                 \E w \in Workers :
                     /\ pc[w] = "setex" /\ pc'[w] = "commit"
                     /\ alert[w].patient_id = p /\ alert[w].qsofa_score >= 0
        /\ \A w \in Workers :
             err'[w] # "none" /\ err[w] = "none" => cooldown' = cooldown
      ]_vars

\* C8 witness: the alert composition failed (hgetall of line 241 raised) and
\* the patient has no cooldown entry.
C8_ComposeFailedNoCooldown ==
    \E w \in Workers : \E p \in Patients :
        err[w] = "RedisError@compose" /\ cooldown[p] = 0 /\ nAlerts[p] = 0

\* C9: an observation with a non-numeric value is skipped without an error:
\* the threshold comparison never raises.
C9_NonNumericValueIsSkipped ==
    \A w \in Workers : err[w] # "TypeError"

\* C10: handling a non-Observation document or an unrecognized code makes no
\* Redis write and dispatches nothing: _process_message returns at once, and
\* neither the poll before it nor the commit after it touches the store.
C10_IrrelevantEventChangesNothing ==
    [][ \A w \in Workers :
          /\ ( /\ pc[w] = "process" /\ pc'[w] # "process" /\ msg[w].json
               /\ (msg[w].resourceType # "Observation" \/ msg[w].code \notin DOMAIN LOINC_CODES) )
             => /\ pc'[w] = "commit"
                /\ UNCHANGED <<criteria, critTTL, cooldown, nAlerts, dispatchers>>
          /\ (pc[w] \in {"poll", "commit"} /\ pc'[w] # pc[w])
             => UNCHANGED <<criteria, critTTL, cooldown, nAlerts, dispatchers>>
      ]_vars

\* C10 witness: an irrelevant message has been handled and committed while the
\* store held criteria and a cooldown entry.
C10_IrrelevantHandledOnLiveStore ==
    \E w \in Workers : \E p \in Patients :
        /\ pc[w] = "commit" /\ msg[w].json /\ msg[w].resourceType = "Patient"
        /\ QsofaScore(p) >= 2 /\ cooldown[p] > 0

\* the message in hand is the message handled just before it, with no tick between
Replayed ==
    /\ Len(trail) >= 2
    /\ trail[Len(trail)].kind = "msg" /\ trail[Len(trail) - 1].kind = "msg"
    /\ trail[Len(trail)].code = trail[Len(trail) - 1].code
    /\ trail[Len(trail)].n = trail[Len(trail) - 1].n

\* C11: while a worker handles a message that replays the one handled just
\* before it, no step changes the fields of the criteria hash or their values:
\* the state after the first application is kept, for abnormal and for normal
\* values, however often the message is replayed.
C11_ReplayKeepsRecords ==
    [][ (Replayed /\ \E w \in Workers : pc[w] \notin {"poll", "closed"})
            => criteria' = criteria
      ]_vars

\* C11 witness: an abnormal observation has been applied three times in a row
\* and the hash holds the one record of the first application.
C11_ReplayedTwice ==
    /\ Replayed /\ Len(trail) = 3
    /\ trail[1] = trail[3] /\ trail[3].n = 24
    /\ \E w \in Workers : pc[w] = "commit"
    /\ \E p \in Patients :
          criteria[p] = [NoFields EXCEPT !["respiratory_rate"] = "24"]

\* history entry e is the observation with this code and value
IsObs(e, code, n) == e.kind = "msg" /\ e.code = code /\ e.n = n

\* the handling of the i-th entry of the history is over
Finished(i) ==
    i < Len(trail) \/ \A w \in Workers : pc[w] \in {"poll", "commit", "closed"}

\* the history starts with RR=24, SBP=90 and GCS=10, no tick between them
ScenarioOpening ==
    /\ Len(trail) >= 3
    /\ IsObs(trail[1], "9279-1", 24)
    /\ IsObs(trail[2], "85354-9", 90)
    /\ IsObs(trail[3], "9269-2", 10)

\* ... and goes on with k ticks and one more abnormal observation
ScenarioClosing(k) ==
    /\ ScenarioOpening
    /\ Len(trail) >= 4 + k
    /\ \A i \in 4..(3 + k) : trail[i].kind = "tick"
    /\ trail[4 + k].kind = "msg"
    /\ IsAbnormal(LOINC_CODES[trail[4 + k].code], Num(trail[4 + k].n))

\* the alerts of the scenario: none, one, none (suppressed), one
ScenarioAlerts ==
    /\ (Len(trail) >= 1 /\ IsObs(trail[1], "9279-1", 24) /\ Finished(1))
           => ~trail[1].dispatched
    /\ (Len(trail) >= 2 /\ IsObs(trail[1], "9279-1", 24)
                        /\ IsObs(trail[2], "85354-9", 90) /\ Finished(2))
           => trail[2].dispatched
    /\ (ScenarioOpening /\ Finished(3)) => ~trail[3].dispatched
    /\ \A k \in CoolTicks..MaxTicks :
          (k < CritTicks /\ ScenarioClosing(k) /\ Finished(4 + k))
              => trail[4 + k].dispatched

\* C12: one worker: the handling of an observation goes on from the count to
\* the cooldown test exactly when the hash holds two or more criteria after its
\* update, from there to the dispatch exactly when no cooldown key exists, and
\* the dispatch then happens; otherwise nothing is dispatched and no cooldown
\* is created.  Alerts and cooldowns arise in no other way.  In the scenario
\* RR=24, SBP=90, GCS=10, cooldown expiry, abnormal reading, the alerts are
\* none, one, none, one.
C12_AlertExactlyWhenScoreAndNoCooldown ==
    [][ /\ \A w \in Workers :
             /\ (pc[w] = "count" /\ pc'[w] # "count") =>
                    IF QsofaScore(patient_id[w]) >= 2
                    THEN pc'[w] = "cooldown"
                    ELSE pc'[w] = "commit" /\ nAlerts' = nAlerts /\ cooldown' = cooldown
             /\ (pc[w] = "cooldown" /\ pc'[w] # "cooldown") =>
                    IF cooldown[patient_id[w]] > 0
                    THEN pc'[w] = "commit" /\ nAlerts' = nAlerts /\ cooldown' = cooldown
                    ELSE pc'[w] = "compose"
             /\ (pc[w] = "compose" /\ pc'[w] # "compose") => pc'[w] = "send"
             /\ (pc[w] = "send" /\ pc'[w] # "send") =>
                    /\ pc'[w] = "setex"
                    /\ nAlerts'[patient_id[w]] = nAlerts[patient_id[w]] + 1
        /\ nAlerts' # nAlerts => \E w \in Workers : pc[w] = "send"
        /\ (\E p \in Patients : cooldown'[p] > cooldown[p]) =>
               \E w \in Workers : pc[w] = "setex"
        /\ ScenarioAlerts'
      ]_vars

\* C12 witness: the scenario has been played to its end, the fourth
\* observation coming right after the cooldown expired, and the alerts were
\* none, one, none, one.
C12_ScenarioPlayed ==
    /\ ScenarioClosing(CoolTicks) /\ Len(trail) = 4 + CoolTicks
    /\ \A w \in Workers : pc[w] \in {"commit", "closed"}
    /\ ~trail[1].dispatched /\ trail[2].dispatched /\ ~trail[3].dispatched
    /\ trail[4 + CoolTicks].dispatched
    /\ \E p \in Patients : nAlerts[p] = 2 /\ cooldown[p] = CoolTicks

\* C13: a cooldown key that exists is never written: its time to live only
\* runs down, and the setex of line 261 is executed only when the key is absent.
C13_CooldownNeverRewritten ==
    [][ /\ \A p \in Patients : cooldown[p] > 0 => cooldown'[p] <= cooldown[p]
        /\ \A w \in Workers :
             (pc[w] = "setex" /\ pc'[w] # "setex") => cooldown[patient_id[w]] = 0
      ]_vars

\* the threshold table of the specification
TableAbnormal(vital, n) ==
    \/ vital = "respiratory_rate" /\ n >= 22
    \/ vital = "systolic_bp" /\ n <= 100
    \/ vital = "gcs" /\ n < 15

\* the decision of lines 200-210 agrees with the table on every value up to MaxValue
DecisionIsTable ==
    \A vital \in ScoringVitals : \A n \in 0..MaxValue :
        IsAbnormal(vital, Num(n)) <=> TableAbnormal(vital, n)

\* C14: the decision of _check_qsofa_criteria is the threshold table, on every
\* value up to MaxValue and on every observation a worker handles: a numeric
\* observation is stored (hset) exactly when the table calls it abnormal, and
\* is cleared (hdel) otherwise.
C14_DecisionMatchesTable ==
    [][ /\ DecisionIsTable
        /\ \A w \in Workers :
             (pc[w] = "check" /\ pc'[w] \in {"expire", "count"}
                 /\ vital_sign[w] \in ScoringVitals) =>
                 /\ pc'[w] = "expire" <=> TableAbnormal(vital_sign[w], value[w].n)
                 /\ criteria'[patient_id[w]][vital_sign[w]] =
                        IF TableAbnormal(vital_sign[w], value[w].n)
                        THEN Str(value[w].n) ELSE ""
      ]_vars

\* C14 witness: the boundary values 22 and 100 are stored as abnormal and the
\* boundary value GCS = 15 has just been taken as normal.
C14_BoundariesHandled ==
    \E w \in Workers : \E p \in Patients :
        /\ pc[w] = "count" /\ patient_id[w] = p
        /\ vital_sign[w] = "gcs" /\ value[w] = Num(15)
        /\ criteria[p] = [NoFields EXCEPT !["respiratory_rate"] = "22",
                                           !["systolic_bp"] = "100"]

\* C15: the criteria hash never holds a heart_rate or temperature field, so
\* the score is one of 0..3; and the handling of a heart-rate or temperature
\* observation leaves the hash and its expiry as they are.
C15_OnlyScoringVitalsCounted ==
    [][ /\ \A p \in Patients :
             /\ Hgetall(p)' \subseteq ScoringVitals
             /\ QsofaScore(p)' \in 0..3
        /\ \A w \in Workers :
             (pc[w] = "check" /\ pc'[w] # "check"
                 /\ vital_sign[w] \in {"heart_rate", "temperature"}) =>
                 /\ pc'[w] = "count"
                 /\ criteria' = criteria /\ critTTL' = critTTL
      ]_vars

\* C15 witness: a heart rate of 120 has gone through the criterion update
\* while the patient had two criteria; the score the worker reads is still 2.
C15_HeartRateHandled ==
    \E w \in Workers : \E p \in Patients :
        /\ pc[w] = "count" /\ patient_id[w] = p
        /\ vital_sign[w] = "heart_rate" /\ value[w] = Num(120)
        /\ QsofaScore(p) = 2

\* C16: an exception caught at line 142 is logged and the loop polls again,
\* the worker does not stop; and once a message has failed, the worker still
\* goes on to take every message its partition holds through the handler.
C16_LoopSurvivesException ==
    /\ [][ \A w \in Workers : pc[w] = "except" /\ pc'[w] # "except" => pc'[w] = "poll" ]_vars
    /\ \A w \in Workers :
          (firstFailed[w] # 0) ~>
              (pc[w] = "poll" /\ position[w] = feedLen[w] /\ err[w] = "none")

\* C16 witness: after a message that raised, a later message has been handled
\* to its end.
C16_HandledAfterFailure ==
    \E w \in Workers :
        /\ firstFailed[w] # 0 /\ position[w] > firstFailed[w]
        /\ pc[w] = "commit" /\ err[w] = "none"

\* C17: an alert that has gone to the sinks carries a score of 2 or more.
C17_AlertCarriesEvaluatedScore ==
    \A w \in Workers : pc[w] = "setex" => alert[w].qsofa_score >= 2

\* every worker has handled all the messages of its partition
AllFinished ==
    \A w \in Workers : pc[w] = "poll" /\ position[w] = feedLen[w]

\* C18: workers that start on an empty store with no cooldown key and handle
\* their observations concurrently: when all of them have finished and the
\* hash they wrote holds two or more criteria, at least one alert has been
\* dispatched, whatever the interleaving of the Redis calls.
C18_NoAlertLost ==
    \A p \in Patients :
        (AllFinished /\ QsofaScore(p) >= 2) => nAlerts[p] >= 1

\* C18 witness: two workers are handling their first messages at the same
\* time, both have written their criterion, and one of them has dispatched
\* the alert while the other has yet to read the score.
C18_ConcurrentWritersOneAlert ==
    \E w \in Workers : \E x \in Workers \ {w} : \E p \in Patients :
        /\ position[w] = 1 /\ position[x] = 1
        /\ pc[w] = "count" /\ pc[x] = "setex"
        /\ QsofaScore(p) >= 2 /\ nAlerts[p] = 1 /\ cooldown[p] = 0

\* C19: a criteria hash that holds a record carries an expiry of at most 6
\* hours, once no worker stands between the hset and the expire that follows it.
C19_CriteriaAlwaysExpire ==
    \A p \in Patients :
        (KeyExists(p) /\ \A w \in Workers : pc[w] # "expire")
            => critTTL[p] \in 1..CritTicks

\* C20: a poll that times out or meets the end of the partition changes
\* nothing: the worker stays at the poll, nothing is processed or committed.
\* Any other feed error takes the worker out of the loop into the finally
\* clause, whose only step closes the consumer; from the error on the worker
\* takes no message and commits nothing, and it never ends unclosed.
C20_FeedErrorsByKind ==
    [][ \A w \in Workers :
          /\ (polled'[w] # polled[w] /\ polled'[w] \in {"none", "eof"}) =>
                 /\ pc[w] = "poll" /\ pc'[w] = "poll"
                 /\ UNCHANGED <<position, committed, msg, storeVars, nAlerts>>
          /\ (polled'[w] # polled[w] /\ polled'[w] = "error") =>
                 /\ pc[w] = "poll" /\ pc'[w] = "finally"
                 /\ UNCHANGED <<position, committed, msg, storeVars, nAlerts>>
          /\ pc[w] \in {"finally", "closed"} =>
                 /\ pc'[w] \in {"finally", "closed"}
                 /\ position'[w] = position[w] /\ committed'[w] = committed[w]
                 /\ msg'[w] = msg[w] /\ polled'[w] = polled[w]
          /\ (pc'[w] = "closed" /\ pc[w] # "closed") => pc[w] = "finally"
          /\ pc'[w] \in {"poll", "process", "check", "expire", "count", "cooldown",
                          "compose", "send", "setex", "commit", "except",
                          "finally", "closed"}
      ]_vars

\* C20 witness: a worker that had handled and committed a message met a fatal
\* feed error and is closed, with messages of its partition left unread.
C20_ClosedAfterFatalError ==
    \E w \in Workers :
        /\ pc[w] = "closed" /\ polled[w] = "error"
        /\ position[w] > 0 /\ position[w] < feedLen[w]
        /\ committed[w] = position[w]

=============================================================================
